---- MODULE Spec2Model ----
(***************************************************************************)
(* Model of the two scripts of the repository:                             *)
(*   scripts/export_gtr_t5_to_onnx.py  (the Exporter)                      *)
(*   scripts/verify_onnx_export.py     (the Verifier and mean_pooling)     *)
(*                                                                         *)
(* Spec      a shell session: a bounded sequence of script invocations on  *)
(*           one filesystem; each script is stepped statement by statement *)
(* SpecPool  mean_pooling as a pure function over bounded float tensors    *)
(***************************************************************************)
EXTENDS Integers, Sequences, FiniteSets, TLC

VARIABLES
    fs,           \* filesystem: directory -> [exists, files: name -> content]
    pre,          \* fs as it was when the current invocation started
    run,          \* number of script invocations started so far
    script,       \* "none" | "export" | "verify": the script being run
    argv,         \* the positional command-line argument, or NoArg
    pc,           \* position in the running script
    path,         \* output_path / onnx_path of the running function
    written,      \* files this invocation has written completely
    steps,        \* Exporter: the side-effecting steps attempted, in order
    loaded,       \* Verifier: what has been loaded
    idx,          \* Verifier: 1-based index of the probe sentence in the loop
    all_match,    \* Verifier: the all_match flag
    verdicts,     \* Verifier: sentence -> "none" | "PASS" | "FAIL"
    calls,        \* Verifier: sentence -> sequence of graph invocations
    cos_sim,      \* Verifier: cosine similarity of the sentence last compared
    ref_embedded, \* Verifier: sentences whose reference embedding was computed
    result,       \* return value of the function: "none" | "True" | "False"
    exit_status,  \* process exit status, -1 while the process has not exited
    hidden,       \* mean_pooling: token_embeddings, a sequence of vectors
    mask,         \* mean_pooling: attention_mask, a sequence of 0/1 flags
    pooled,       \* mean_pooling(hidden, mask)
    ext_hidden,   \* hidden with one more token position
    ext_mask,     \* mask with one more flag
    ext_pooled,   \* mean_pooling(ext_hidden, ext_mask)
    ext_at,       \* "front" | "back": where the extra position was added
    ppc           \* "input" | "pooled" | "extended"

svars == <<fs, pre, run, script, argv, pc, path, written, steps, loaded, idx,
           all_match, verdicts, calls, cos_sim, ref_embedded, result, exit_status>>
pvars == <<hidden, mask, pooled, ext_hidden, ext_mask, ext_pooled, ext_at, ppc>>
vars == <<svars, pvars>>

(***************************************************************************)
(* Bounds                                                                  *)
(***************************************************************************)
MaxRuns == 2
MaxLen == 2

(***************************************************************************)
(* Program constants                                                       *)
(***************************************************************************)
\* len(test_sentences)
NumSentences == 4
\* the PASS threshold 0.999, in units of 1/10000
Threshold == 9990

DefaultDir == "./gtr-t5-base-onnx"
ArgDir == "./some-other-dir"
NoArg == "<no argument>"
Dirs == {DefaultDir, ArgDir}

GraphFile == "model.onnx"
TokenizerFiles == {"tokenizer_config.json", "spiece.model"}
MetadataFile == "metadata.json"
OtherFile == "notes.txt"
ArtifactFiles == {GraphFile, MetadataFile} \cup TokenizerFiles
FileNames == ArtifactFiles \cup {OtherFile}

Sentences == 1..NumSentences

(***************************************************************************)
(* Filesystem helpers                                                      *)
(***************************************************************************)
NoFiles == [f \in FileNames |-> "absent"]
FilesOf(S) == [f \in FileNames |-> IF f \in S THEN "ok" ELSE "absent"]
Present(d) == {f \in FileNames : fs[d].files[f] # "absent"}
PresentBefore(d) == {f \in FileNames : pre[d].files[f] # "absent"}

\* what a directory may hold before the first invocation: absent, empty,
\* unrelated files, a previous artifact, a previous artifact and unrelated files
InitialDirStates ==
    { [exists |-> FALSE, files |-> NoFiles] } \cup
    { [exists |-> TRUE, files |-> FilesOf(S)] :
        S \in { {}, {OtherFile}, ArtifactFiles, FileNames } }

WriteFiles(d, S, content) ==
    [fs EXCEPT ![d].files = [f \in FileNames |-> IF f \in S THEN content ELSE @[f]]]

(***************************************************************************)
(* The command line.  Both scripts end in                                  *)
(*     if __name__ == "__main__": export_to_onnx()  /  verify_onnx_export() *)
(* so the function runs with its default parameter; sys.argv is never read. *)
(***************************************************************************)
CliDirectory_from_argv(a) == IF a = NoArg THEN DefaultDir ELSE a

CliDirectory(a) == DefaultDir

(***************************************************************************)
(* A shell session: one script at a time, each invocation a fresh process. *)
(***************************************************************************)
NoVerdicts == [i \in Sentences |-> "none"]
NoCalls == [i \in Sentences |-> <<>>]

InitSession ==
    /\ fs \in [Dirs -> InitialDirStates]
    /\ pre = fs
    /\ run = 0
    /\ script = "none"
    /\ argv = NoArg
    /\ pc = "idle"
    /\ path = DefaultDir
    /\ written = {}
    /\ steps = <<>>
    /\ loaded = {}
    /\ idx = 0
    /\ all_match = TRUE
    /\ verdicts = NoVerdicts
    /\ calls = NoCalls
    /\ cos_sim = [nan |-> FALSE, v |-> 0]
    /\ ref_embedded = {}
    /\ result = "none"
    /\ exit_status = -1

StartInvocation(s, a) ==
    /\ pc \in {"idle", "exited"}
    /\ run < MaxRuns
    /\ run' = run + 1
    /\ script' = s
    /\ argv' = a
    /\ pc' = "main"
    /\ pre' = fs
    /\ path' = DefaultDir
    /\ written' = {}
    /\ steps' = <<>>
    /\ loaded' = {}
    /\ idx' = 0
    /\ all_match' = TRUE
    /\ verdicts' = NoVerdicts
    /\ calls' = NoCalls
    /\ cos_sim' = [nan |-> FALSE, v |-> 0]
    /\ ref_embedded' = {}
    /\ result' = "none"
    /\ exit_status' = -1
    /\ UNCHANGED <<fs, pvars>>

(***************************************************************************)
(* Exporter: export_to_onnx                                                *)
(***************************************************************************)
\* the side-effecting statements of export_to_onnx in program order
ExportOrder_metadata_early == <<"mkdir", "load", "graph", "metadata", "tokenizer">>

ExportOrder == <<"mkdir", "load", "graph", "tokenizer", "metadata">>

StepAfter(s) ==
    LET i == CHOOSE k \in 1..Len(ExportOrder) : ExportOrder[k] = s
    IN  IF i = Len(ExportOrder) THEN "returned" ELSE ExportOrder[i + 1]

\* output_path.mkdir(parents=True, exist_ok=True): creates the directory when
\* absent and leaves an existing directory and its contents alone
Mkdir_wipe(d) == [fs EXCEPT ![d] = [exists |-> TRUE, files |-> NoFiles]]

Mkdir(d) == [fs EXCEPT ![d].exists = TRUE]

ExpUnchanged == <<pre, run, script, argv, loaded, idx, all_match, verdicts,
                  calls, cos_sim, ref_embedded, exit_status, pvars>>

E_Main ==
    /\ script = "export" /\ pc = "main"
    /\ path' = CliDirectory(argv)
    /\ pc' = ExportOrder[1]
    /\ UNCHANGED <<fs, written, steps, result>>
    /\ UNCHANGED ExpUnchanged

E_Mkdir ==
    /\ script = "export" /\ pc = "mkdir"
    /\ fs' = Mkdir(path)
    /\ steps' = Append(steps, "mkdir")
    /\ pc' = StepAfter("mkdir")
    /\ UNCHANGED <<path, written, result>>
    /\ UNCHANGED ExpUnchanged

\* AutoModel.from_pretrained / AutoTokenizer.from_pretrained, model.eval(),
\* the dummy input; a failed load raises
E_Load ==
    /\ script = "export" /\ pc = "load"
    /\ steps' = Append(steps, "load")
    /\ \E ok \in BOOLEAN : pc' = IF ok THEN StepAfter("load") ELSE "raised"
    /\ UNCHANGED <<fs, path, written, result>>
    /\ UNCHANGED ExpUnchanged

\* torch.onnx.export(..., str(onnx_path), ...): writes model.onnx; a failed
\* serialization raises, having written nothing or part of the file
E_Graph ==
    /\ script = "export" /\ pc = "graph"
    /\ steps' = Append(steps, "graph")
    /\ \/ /\ fs' = WriteFiles(path, {GraphFile}, "ok")
          /\ written' = written \cup {GraphFile}
          /\ pc' = StepAfter("graph")
       \/ /\ fs' \in {fs, WriteFiles(path, {GraphFile}, "partial")}
          /\ written' = written
          /\ pc' = "raised"
    /\ UNCHANGED <<path, result>>
    /\ UNCHANGED ExpUnchanged

\* tokenizer.save_pretrained(output_path): writes the tokenizer files; a
\* failure raises after some of them were written
E_Tokenizer ==
    /\ script = "export" /\ pc = "tokenizer"
    /\ steps' = Append(steps, "tokenizer")
    /\ \/ /\ fs' = WriteFiles(path, TokenizerFiles, "ok")
          /\ written' = written \cup TokenizerFiles
          /\ pc' = StepAfter("tokenizer")
       \/ \E S \in (SUBSET TokenizerFiles) \ {TokenizerFiles} :
          /\ fs' = WriteFiles(path, S, "ok")
          /\ written' = written \cup S
          /\ pc' = "raised"
    /\ UNCHANGED <<path, result>>
    /\ UNCHANGED ExpUnchanged

\* json.dump(metadata, open(output_path / "metadata.json", "w"))
E_Metadata ==
    /\ script = "export" /\ pc = "metadata"
    /\ steps' = Append(steps, "metadata")
    /\ fs' = WriteFiles(path, {MetadataFile}, "ok")
    /\ written' = written \cup {MetadataFile}
    /\ pc' = StepAfter("metadata")
    /\ UNCHANGED <<path, result>>
    /\ UNCHANGED ExpUnchanged

\* the script ends (status 0), or the uncaught exception ends it (status 1)
E_Exit ==
    /\ script = "export" /\ pc \in {"returned", "raised"}
    /\ exit_status' = IF pc = "returned" THEN 0 ELSE 1
    /\ pc' = "exited"
    /\ UNCHANGED <<fs, pre, run, script, argv, path, written, steps, loaded, idx,
                   all_match, verdicts, calls, cos_sim, ref_embedded, result, pvars>>

ExportNext ==
    \/ E_Main
    \/ E_Mkdir
    \/ E_Load
    \/ E_Graph
    \/ E_Tokenizer
    \/ E_Metadata
    \/ E_Exit

(***************************************************************************)
(* Verifier: verify_onnx_export                                            *)
(***************************************************************************)
\* cosine similarities, in units of 1/10000; nan when a norm is zero or an
\* embedding holds a NaN
CosVals ==
    { [nan |-> FALSE, v |-> x] : x \in {-10000, 0, 9989, 9990, 9991, 10000} }
        \cup { [nan |-> TRUE, v |-> 0] }

\* cosine_sim > 0.999 (a comparison with NaN is False)
Passes(cos) == (~cos.nan) /\ cos.v > Threshold

\* if cosine_sim > 0.999: PASS  else: FAIL; all_match = False
NextAllMatch_last_wins(am, pass) == pass

NextAllMatch(am, pass) == IF pass THEN am ELSE FALSE

\* exit(0 if success else 1); an uncaught exception ends the interpreter
\* with status 1
ExitStatus_raise_is_success(res, raised) ==
    IF raised THEN 0 ELSE IF res = "True" THEN 0 ELSE 1

ExitStatus(res, raised) ==
    IF raised THEN 1 ELSE IF res = "True" THEN 0 ELSE 1

\* ORTModelForFeatureExtraction.from_pretrained(onnx_path) and
\* AutoTokenizer.from_pretrained(onnx_path) need the files to be there
Loadable(d) ==
    /\ fs[d].exists
    /\ fs[d].files[GraphFile] = "ok"
    /\ \A f \in TokenizerFiles : fs[d].files[f] = "ok"

VerUnchanged == <<fs, pre, run, script, argv, written, steps, cos_sim, exit_status, pvars>>

V_Main ==
    /\ script = "verify" /\ pc = "main"
    /\ path' = CliDirectory(argv)
    /\ pc' = "check_dir"
    /\ UNCHANGED <<loaded, idx, all_match, verdicts, calls, ref_embedded, result>>
    /\ UNCHANGED VerUnchanged

\* if not onnx_path.exists(): print(...); return False
V_CheckDir_load_first ==
    /\ script = "verify" /\ pc = "check_dir"
    /\ pc' = "load_ref"
    /\ UNCHANGED <<path, loaded, idx, all_match, verdicts, calls, ref_embedded, result>>
    /\ UNCHANGED VerUnchanged

V_CheckDir ==
    /\ script = "verify" /\ pc = "check_dir"
    /\ IF ~fs[path].exists
         THEN /\ result' = "False"
              /\ pc' = "returned"
         ELSE /\ result' = result
              /\ pc' = "load_ref"
    /\ UNCHANGED <<path, loaded, idx, all_match, verdicts, calls, ref_embedded>>
    /\ UNCHANGED VerUnchanged

\* original_model = SentenceTransformer(model_name); a failed load raises
V_LoadRef ==
    /\ script = "verify" /\ pc = "load_ref"
    /\ \E ok \in BOOLEAN :
         IF ok THEN /\ loaded' = loaded \cup {"reference"}
                    /\ pc' = "load_onnx"
               ELSE /\ loaded' = loaded
                    /\ pc' = "raised"
    /\ UNCHANGED <<path, idx, all_match, verdicts, calls, ref_embedded, result>>
    /\ UNCHANGED VerUnchanged

\* onnx_model and tokenizer from onnx_path; then all_match = True and the loop
\* starts at the first sentence
V_LoadOnnx ==
    /\ script = "verify" /\ pc = "load_onnx"
    /\ \E ok \in BOOLEAN :
         IF ok /\ Loadable(path)
           THEN /\ loaded' = loaded \cup {"onnx", "tokenizer"}
                /\ pc' = "loop"
                /\ idx' = 1
                /\ all_match' = TRUE
           ELSE /\ loaded' = loaded
                /\ pc' = "raised"
                /\ UNCHANGED <<idx, all_match>>
    /\ UNCHANGED <<path, verdicts, calls, ref_embedded, result>>
    /\ UNCHANGED VerUnchanged

\* for i, sentence in enumerate(test_sentences, 1):
\*     orig_embedding = original_model.encode(sentence); encoded = tokenizer(...)
V_Reference ==
    /\ script = "verify" /\ pc = "loop" /\ idx <= NumSentences
    /\ ref_embedded' = ref_embedded \cup {idx}
    /\ pc' = "primary"
    /\ UNCHANGED <<path, loaded, idx, all_match, verdicts, calls, result>>
    /\ UNCHANGED VerUnchanged

\* try: onnx_output = onnx_model(**encoded)
\* except Exception: print(...)   -> the fallback
V_Primary_always_retry ==
    /\ script = "verify" /\ pc = "primary"
    /\ \E ok \in BOOLEAN :
         /\ calls' = [calls EXCEPT ![idx] = Append(@, [inputs |-> "standard", ok |-> ok])]
         /\ pc' = "fallback"
    /\ UNCHANGED <<path, loaded, idx, all_match, verdicts, ref_embedded, result>>
    /\ UNCHANGED VerUnchanged

V_Primary ==
    /\ script = "verify" /\ pc = "primary"
    /\ \E ok \in BOOLEAN :
         /\ calls' = [calls EXCEPT ![idx] = Append(@, [inputs |-> "standard", ok |-> ok])]
         /\ pc' = IF ok THEN "compare" ELSE "fallback"
    /\ UNCHANGED <<path, loaded, idx, all_match, verdicts, ref_embedded, result>>
    /\ UNCHANGED VerUnchanged

\* encoded['decoder_input_ids'] = torch.zeros((1, 1)); onnx_output = onnx_model(**encoded)
\* inside the except clause, with no handler of its own: a failure propagates
V_Fallback_recorded_as_fail ==
    /\ script = "verify" /\ pc = "fallback"
    /\ \E ok \in BOOLEAN :
         /\ calls' = [calls EXCEPT ![idx] = Append(@, [inputs |-> "with_decoder_input_ids", ok |-> ok])]
         /\ IF ok THEN /\ pc' = "compare"
                       /\ UNCHANGED <<idx, all_match, verdicts>>
                  ELSE /\ pc' = "loop"
                       /\ verdicts' = [verdicts EXCEPT ![idx] = "FAIL"]
                       /\ all_match' = FALSE
                       /\ idx' = idx + 1
    /\ UNCHANGED <<path, loaded, ref_embedded, result>>
    /\ UNCHANGED VerUnchanged

V_Fallback ==
    /\ script = "verify" /\ pc = "fallback"
    /\ \E ok \in BOOLEAN :
         /\ calls' = [calls EXCEPT ![idx] = Append(@, [inputs |-> "with_decoder_input_ids", ok |-> ok])]
         /\ pc' = IF ok THEN "compare" ELSE "raised"
    /\ UNCHANGED <<path, loaded, idx, all_match, verdicts, ref_embedded, result>>
    /\ UNCHANGED VerUnchanged

\* mean_pooling, the cosine similarity, the verdict, and on to the next sentence
V_Compare ==
    /\ script = "verify" /\ pc = "compare"
    /\ \E cos \in CosVals :
         /\ verdicts' = [verdicts EXCEPT ![idx] = IF Passes(cos) THEN "PASS" ELSE "FAIL"]
         /\ all_match' = NextAllMatch(all_match, Passes(cos))
         /\ cos_sim' = cos
    /\ idx' = idx + 1
    /\ pc' = "loop"
    /\ UNCHANGED <<path, loaded, calls, ref_embedded, result>>
    /\ UNCHANGED <<fs, pre, run, script, argv, written, steps, exit_status, pvars>>

\* after the loop: return True if all_match else False
V_Summary ==
    /\ script = "verify" /\ pc = "loop" /\ idx > NumSentences
    /\ result' = IF all_match THEN "True" ELSE "False"
    /\ pc' = "returned"
    /\ UNCHANGED <<path, loaded, idx, all_match, verdicts, calls, ref_embedded>>
    /\ UNCHANGED VerUnchanged

V_Exit ==
    /\ script = "verify" /\ pc \in {"returned", "raised"}
    /\ exit_status' = ExitStatus(result, pc = "raised")
    /\ pc' = "exited"
    /\ UNCHANGED <<fs, pre, run, script, argv, path, written, steps, loaded, idx,
                   all_match, verdicts, calls, cos_sim, ref_embedded, result, pvars>>

VerifyNext ==
    \/ V_Main
    \/ V_CheckDir
    \/ V_LoadRef
    \/ V_LoadOnnx
    \/ V_Reference
    \/ V_Primary
    \/ V_Fallback
    \/ V_Compare
    \/ V_Summary
    \/ V_Exit

InitPoolIdle ==
    /\ hidden = <<>>
    /\ mask = <<>>
    /\ pooled = <<>>
    /\ ext_hidden = <<>>
    /\ ext_mask = <<>>
    /\ ext_pooled = <<>>
    /\ ext_at = "none"
    /\ ppc = "off"

Invoke == \E s \in {"export", "verify"}, a \in {NoArg, ArgDir} : StartInvocation(s, a)

Init == InitSession /\ InitPoolIdle

Next ==
    \/ Invoke
    \/ ExportNext
    \/ VerifyNext

Spec == Init /\ [][Next]_vars

(***************************************************************************)
(* mean_pooling.  A float32 is modelled as a finite value (an integer, with *)
(* exact arithmetic), NaN or +Inf, with the IEEE-754 rules the expression   *)
(* token_embeddings * mask, torch.sum, torch.clamp and / go through.        *)
(***************************************************************************)
Fin(n) == [k |-> "fin", n |-> n]
NaN == [k |-> "nan", n |-> 0]
Inf == [k |-> "inf", n |-> 0]

FiniteVals == {-1, 2}
FloatVals == {Fin(n) : n \in FiniteVals} \cup {NaN, Inf}
\* the embedding dimensions (768 in the program)
Dims == {1, 2}
Vectors == [Dims -> FloatVals]

\* x * m for a mask flag m (0.0 or 1.0): NaN * m = NaN, Inf * 0 = NaN
FMul(x, m) ==
    CASE x.k = "fin" -> Fin(x.n * m)
      [] x.k = "nan" -> NaN
      [] x.k = "inf" -> IF m = 0 THEN NaN ELSE Inf

FAdd(x, y) ==
    CASE x.k = "nan" \/ y.k = "nan" -> NaN
      [] x.k = "inf" \/ y.k = "inf" -> Inf
      [] OTHER -> Fin(x.n + y.n)

\* torch.sum(token_embeddings * input_mask_expanded, 1), component d
RECURSIVE SumProducts(_, _, _)
SumProducts(h, m, d) ==
    IF h = <<>> THEN Fin(0)
    ELSE FAdd(FMul(Head(h)[d], Head(m)), SumProducts(Tail(h), Tail(m), d))

\* input_mask_expanded.sum(1): the number of positions flagged 1
RECURSIVE MaskSum_length(_)
MaskSum_length(m) == IF m = <<>> THEN 0 ELSE 1 + MaskSum_length(Tail(m))

RECURSIVE MaskSum(_)
MaskSum(m) == IF m = <<>> THEN 0 ELSE Head(m) + MaskSum(Tail(m))

\* torch.clamp(c, min=1e-9) of a whole number c: c >= 1 is kept, 0 < 1e-9 is
\* raised to eps.  A denominator is n (eps = FALSE) or n * 1e-9 (eps = TRUE).
Eps == [eps |-> TRUE, n |-> 1]
Clamp_no_floor(c) == [eps |-> FALSE, n |-> c]

Clamp(c) == IF c <= 0 THEN Eps ELSE [eps |-> FALSE, n |-> c]

\* x / den: a finite quotient is kept as the fraction num / den
FDiv(x, den) ==
    CASE x.k = "nan" -> [k |-> "nan", num |-> 0, den |-> den]
      [] x.k = "inf" -> [k |-> "inf", num |-> 0, den |-> den]
      [] x.k = "fin" /\ den.n = 0 ->
            [k |-> IF x.n = 0 THEN "nan" ELSE "inf", num |-> 0, den |-> den]
      [] OTHER -> [k |-> "fin", num |-> x.n, den |-> den]

mean_pooling(h, m) ==
    [d \in Dims |-> FDiv(SumProducts(h, m, d), Clamp(MaskSum(m)))]

\* the same float: the same kind and, when finite, the same number
SameFloat(a, b) ==
    /\ a.k = b.k
    /\ a.k = "fin" =>
         IF a.den.eps = b.den.eps THEN a.num * b.den.n = b.num * a.den.n
         ELSE a.num = 0 /\ b.num = 0
SameVector(a, b) == \A d \in Dims : SameFloat(a[d], b[d])

SeqsUpTo(S, n) == UNION { [1..k -> S] : k \in 0..n }

InitSessionIdle ==
    /\ fs = [d \in Dirs |-> [exists |-> FALSE, files |-> NoFiles]]
    /\ pre = fs
    /\ run = 0
    /\ script = "none"
    /\ argv = NoArg
    /\ pc = "idle"
    /\ path = DefaultDir
    /\ written = {}
    /\ steps = <<>>
    /\ loaded = {}
    /\ idx = 0
    /\ all_match = TRUE
    /\ verdicts = NoVerdicts
    /\ calls = NoCalls
    /\ cos_sim = [nan |-> FALSE, v |-> 0]
    /\ ref_embedded = {}
    /\ result = "none"
    /\ exit_status = -1

InitPool ==
    /\ hidden \in SeqsUpTo(Vectors, MaxLen)
    /\ mask \in [1..Len(hidden) -> {0, 1}]
    /\ pooled = <<>>
    /\ ext_hidden = <<>>
    /\ ext_mask = <<>>
    /\ ext_pooled = <<>>
    /\ ext_at = "none"
    /\ ppc = "input"

P_Pool ==
    /\ ppc = "input"
    /\ pooled' = mean_pooling(hidden, mask)
    /\ ppc' = "pooled"
    /\ UNCHANGED <<hidden, mask, ext_hidden, ext_mask, ext_pooled, ext_at, svars>>

\* the same input with one more token position in front, flagged 0 in the
\* attention mask, pooled again
P_Prepend ==
    /\ ppc = "pooled"
    /\ \E v \in Vectors :
         /\ ext_hidden' = <<v>> \o hidden
         /\ ext_mask' = <<0>> \o mask
         /\ ext_pooled' = mean_pooling(<<v>> \o hidden, <<0>> \o mask)
    /\ ext_at' = "front"
    /\ ppc' = "extended"
    /\ UNCHANGED <<hidden, mask, pooled, svars>>

\* the same input with one more token position at the end, flagged 0 in the
\* attention mask, pooled again
P_Append ==
    /\ ppc = "pooled"
    /\ \E v \in Vectors :
         /\ ext_hidden' = Append(hidden, v)
         /\ ext_mask' = Append(mask, 0)
         /\ ext_pooled' = mean_pooling(Append(hidden, v), Append(mask, 0))
    /\ ext_at' = "back"
    /\ ppc' = "extended"
    /\ UNCHANGED <<hidden, mask, pooled, svars>>

PoolNext ==
    \/ P_Pool
    \/ P_Prepend
    \/ P_Append

PoolInit == InitSessionIdle /\ InitPool

SpecPool == PoolInit /\ [][PoolNext]_vars

(***************************************************************************)
(* Properties                                                              *)
(***************************************************************************)
AllPass == \A i \in Sentences : verdicts[i] = "PASS"
LoopFinished == idx > NumSentences
\* both invocations of the graph for sentence i failed
BothFailed(i) ==
    /\ Len(calls[i]) = 2
    /\ ~calls[i][1].ok
    /\ ~calls[i][2].ok
ExportSucceeded ==
    /\ script = "export"
    /\ pc = "returned" \/ (pc = "exited" /\ exit_status = 0)
ExportFailed ==
    /\ script = "export"
    /\ pc = "raised" \/ (pc = "exited" /\ exit_status = 1)

\* C1: a run of verify_onnx_export that reaches the end of the probe loop
\* returns True exactly when every probe sentence got the verdict PASS; a
\* verdict is PASS exactly when the cosine similarity is above 0.999; and once
\* a sentence has the verdict FAIL, all_match is False and stays False whatever
\* the later verdicts are.
C1_OverallPassIffEveryProbePasses ==
    script = "verify" =>
        /\ \A i \in Sentences : verdicts[i] = "FAIL" => ~all_match
        /\ (pc = "loop" /\ idx > 1) =>
              (verdicts[idx - 1] = "PASS" <=> (~cos_sim.nan /\ cos_sim.v >= 9991))
        /\ (LoopFinished /\ pc \in {"returned", "exited"}) =>
              (result = "True" <=> AllPass)

C1_Witness ==
    /\ script = "verify"
    /\ pc = "returned"
    /\ LoopFinished
    /\ result = "False"
    /\ verdicts[2] = "FAIL"
    /\ verdicts[3] = "PASS"
    /\ verdicts[4] = "PASS"

\* C2 as claimed: when the primary call and the fallback retry both fail for
\* a probe sentence, that sentence's verdict is FAIL, the run is not aborted,
\* and every probe sentence is processed.
C2_FailureIsolated ==
    script = "verify" =>
        \A i \in Sentences : BothFailed(i) =>
            /\ verdicts[i] = "FAIL"
            /\ pc # "raised"
            /\ pc = "exited" => \A j \in Sentences : verdicts[j] # "none"

\* C2 as amended: when the primary call and the fallback retry both fail for
\* a probe sentence, the exception of the retry propagates: no verdict is
\* recorded for that sentence, no later sentence is processed, the function
\* returns nothing and the process exits with status 1.
C2_FailureAborts ==
    script = "verify" =>
        \A i \in Sentences : BothFailed(i) =>
            /\ pc \in {"raised", "exited"}
            /\ verdicts[i] = "none"
            /\ \A j \in Sentences : j > i =>
                  /\ verdicts[j] = "none"
                  /\ calls[j] = <<>>
                  /\ j \notin ref_embedded
            /\ result = "none"
            /\ pc = "exited" => exit_status = 1

C2_Witness ==
    /\ script = "verify"
    /\ pc = "exited"
    /\ verdicts[1] = "PASS"
    /\ BothFailed(2)

\* C3: for each probe sentence the graph is invoked at most twice: first with
\* the standard inputs, and a second time, with the dummy decoder input added,
\* only after the first invocation failed; a failed first invocation is always
\* followed by that one retry, and a successful one by none.
C3_AtMostOneFallback ==
    script = "verify" =>
        \A i \in Sentences :
            /\ Len(calls[i]) <= 2
            /\ Len(calls[i]) >= 1 => calls[i][1].inputs = "standard"
            /\ Len(calls[i]) = 2 =>
                  /\ calls[i][2].inputs = "with_decoder_input_ids"
                  /\ ~calls[i][1].ok
            /\ (Len(calls[i]) = 1 /\ ~calls[i][1].ok) =>
                  (pc = "fallback" /\ idx = i)
            /\ (Len(calls[i]) = 1 /\ calls[i][1].ok /\ idx = i) => pc # "fallback"

C3_Witness ==
    /\ script = "verify"
    /\ pc = "returned"
    /\ Len(calls[1]) = 2
    /\ calls[1][2].ok
    /\ Len(calls[2]) = 1
    /\ LoopFinished

\* C4: when the artifact directory does not exist, verification ends with the
\* failure result (return False, exit status 1) straight after the existence
\* test: nothing is loaded, no embedding is computed, the graph is never
\* invoked and no probe verdict is produced.
C4_MissingDirectoryFailsFirst ==
    (script = "verify" /\ pc # "main" /\ ~pre[path].exists) =>
        /\ loaded = {}
        /\ ref_embedded = {}
        /\ calls = NoCalls
        /\ verdicts = NoVerdicts
        /\ pc \in {"check_dir", "returned", "exited"}
        /\ pc # "check_dir" => result = "False"
        /\ pc = "exited" => exit_status = 1

C4_Witness ==
    /\ script = "verify"
    /\ pc = "exited"
    /\ ~pre[path].exists
    /\ exit_status = 1

\* C5: the Verifier process exits with status 0 when every probe sentence got
\* the verdict PASS and with status 1 in every other outcome (a FAIL, a
\* missing directory, an uncaught exception).
C5_ExitStatus ==
    (script = "verify" /\ pc = "exited") =>
        /\ exit_status \in {0, 1}
        /\ exit_status = 0 <=> AllPass

C5_Witness ==
    /\ script = "verify"
    /\ pc = "exited"
    /\ exit_status = 0
    /\ AllPass

\* C6 as claimed: each script operates on the directory given as its
\* positional argument, and on the default only when no argument is given.
C6_ArgumentDirectoryUsed ==
    (script \in {"export", "verify"} /\ pc # "main") =>
        path = (IF argv = NoArg THEN DefaultDir ELSE argv)

\* C6 as amended: each script operates on the default directory
\* ./gtr-t5-base-onnx whatever its command line holds; a directory given as
\* an argument is neither written nor read.
C6_DefaultDirectoryAlways ==
    (script \in {"export", "verify"} /\ pc # "main") =>
        /\ path = DefaultDir
        /\ fs[ArgDir] = pre[ArgDir]
        /\ (script = "verify" /\ "onnx" \in loaded) => Loadable(DefaultDir)

C6_Witness ==
    /\ script = "export"
    /\ argv = ArgDir
    /\ pc = "exited"
    /\ exit_status = 0
    /\ ~pre[DefaultDir].exists
    /\ ~fs[ArgDir].exists
    /\ written = ArtifactFiles

\* C7 as claimed: after a successful export the output directory holds
\* exactly the graph file, the tokenizer files and metadata.json, whatever it
\* held before.
C7_ExactlyTheArtifact ==
    ExportSucceeded => Present(path) = ArtifactFiles

\* C7 as amended: after a successful export the output directory holds the
\* graph file, the tokenizer files and metadata.json, each written whole by
\* this run, together with every other file it held before, unchanged; so it
\* holds exactly the artifact only if it held no unrelated file before.
C7_ArtifactPlusEarlierFiles ==
    ExportSucceeded =>
        /\ fs[path].exists
        /\ written = ArtifactFiles
        /\ \A f \in ArtifactFiles : fs[path].files[f] = "ok"
        /\ \A f \in FileNames \ ArtifactFiles : fs[path].files[f] = pre[path].files[f]
        /\ Present(path) = ArtifactFiles \cup PresentBefore(path)

C7_Witness ==
    /\ ExportSucceeded
    /\ pre[path].files[OtherFile] = "ok"
    /\ pre[path].files[GraphFile] = "partial"
    /\ pre[path].files[MetadataFile] = "absent"
    /\ OtherFile \in Present(path)

AddedIndex == IF ext_at = "front" THEN 1 ELSE Len(ext_hidden)
AddedIsFinite == \A d \in Dims : ext_hidden[AddedIndex][d].k = "fin"
SomeRealToken == \E t \in 1..Len(mask) : mask[t] = 1
AllPadding == \A t \in 1..Len(mask) : mask[t] = 0
AllFinite == \A t \in 1..Len(hidden) : \A d \in Dims : hidden[t][d].k = "fin"

\* the sum the specification describes: over the positions t with mask[t] = 1
RECURSIVE SelectedSum(_, _, _)
SelectedSum(h, m, d) ==
    IF h = <<>> THEN 0
    ELSE (IF Head(m) = 1 THEN Head(h)[d].n ELSE 0) + SelectedSum(Tail(h), Tail(m), d)

\* C8 as claimed: prepending or appending a token position whose mask flag
\* is 0 never changes the output of mean_pooling, for any hidden value at that
\* position and any input with at least one mask=1 position.
C8_PaddingNeverChangesOutput ==
    (ppc = "extended" /\ SomeRealToken) => SameVector(ext_pooled, pooled)

\* C8 as amended: prepending or appending a token position whose mask flag
\* is 0 never changes the output of mean_pooling, for any finite hidden value
\* at that position and any input with at least one mask=1 position.
C8_FinitePaddingNeverChangesOutput ==
    (ppc = "extended" /\ SomeRealToken /\ AddedIsFinite) =>
        SameVector(ext_pooled, pooled)

C8_Witness ==
    /\ ppc = "extended"
    /\ ext_at = "front"
    /\ SomeRealToken
    /\ Len(mask) = 2
    /\ ext_mask[1] = 0
    /\ ext_hidden[1][1] = Fin(2)
    /\ ext_hidden[1][2] = Fin(-1)
    /\ pooled[1].k = "fin"
    /\ pooled[1].num = 2
    /\ pooled[1].den = [eps |-> FALSE, n |-> 1]

\* C9 as claimed: for any hidden_states and an all-zero mask the denominator
\* is floored at eps, the output is finite, and each component equals sum/eps
\* with sum the masked sum of that component.
C9_AllPaddingIsFinite ==
    (ppc \in {"pooled", "extended"} /\ AllPadding) =>
        \A d \in Dims :
            /\ pooled[d].k = "fin"
            /\ pooled[d].den = Eps
            /\ pooled[d].num = SelectedSum(hidden, mask, d)

\* C9 as amended: for any hidden_states whose values are all finite and an
\* all-zero mask the denominator is floored at eps, the output is finite, and
\* each component equals sum/eps with sum the masked sum of that component.
C9_AllPaddingOfFiniteIsFinite ==
    (ppc \in {"pooled", "extended"} /\ AllPadding /\ AllFinite) =>
        \A d \in Dims :
            /\ pooled[d].k = "fin"
            /\ pooled[d].den = Eps
            /\ pooled[d].num = SelectedSum(hidden, mask, d)

C9_Witness ==
    /\ ppc = "pooled"
    /\ Len(mask) = 2
    /\ AllPadding
    /\ AllFinite
    /\ hidden[1][1] = Fin(2)
    /\ pooled[1] = [k |-> "fin", num |-> 0, den |-> Eps]

====
